---- MODULE Spec2Model ----
(***************************************************************************)
(* Rule engine of the chess-game platform (src/backend.py): the shared     *)
(* board and snapshot history of GameBase and the three variants           *)
(* GomokuGame, GoGame and OthelloGame.                                     *)
(*                                                                         *)
(* Cells hold 0 (empty), 1 (player A, black) or 2 (player B, white); the   *)
(* results of check_winner are 0 (in progress), 1, 2 and 3 (draw).         *)
(***************************************************************************)
EXTENDS Integers, Sequences, FiniteSets, TLC

VARIABLES
    variant,         \* class of self.game: "Gomoku", "Go" or "Othello"
    grid,            \* self.board.grid, grid[r][c]
    current_player,  \* self.current_player
    history,         \* self.history, most recent snapshot last
    op,              \* the engine method called last
    arg,             \* its arguments, <<x, y>> for make_move
    result,          \* "ok" or the exception the call raised; what a query returned
    net,             \* accepted moves and passes minus accepted undos
    undos,           \* accepted undo calls in a row, ending with the last call
    winner,          \* what check_winner returned to the turn loop's last check
    opening,         \* moves the players of a scenario have agreed to start with
    pass_count,      \* GameClient.pass_count
    player_settings, \* GameClient.player_settings: AI level of each player, 0 human
    in_game_loop,    \* GameClient.game_loop is running
    passes           \* accepted passes since the game last changed otherwise

\* The fields of the client.
client == <<pass_count, player_settings, in_game_loop, passes>>

vars ==
    <<variant, grid, current_player, history, op, arg, result, net, undos,
      winner, opening, client>>

\* The smallest board GameBase.__init__ accepts.
Size == 8

\* Longest history the free-play specification explores.
MaxHist == 6

\* Longest history the ko scenario explores.
MaxKoHist == 7

\* The largest board GameBase.__init__ accepts.
MaxSize == 19

\* Longest history of a game the turn loop plays without an opening.
MaxLoopHist == 4

\* Longest history the callers of the queries explore.
MaxQueryHist == 3

\* Number of moves the recorded Othello game leaves to free play.
OthelloFree == 6

Rows == 0 .. (Size - 1)

Variants == {"Gomoku", "Go", "Othello"}

(***************************************************************************)
(* Board                                                                   *)
(***************************************************************************)

Board(size) == [r \in 0 .. (size - 1) |-> [c \in 0 .. (size - 1) |-> 0]]

is_valid(x, y) == 0 <= x /\ x < Size /\ 0 <= y /\ y < Size

\* grid[x][y] = v
SetCell(g, x, y, v) == [g EXCEPT ![x][y] = v]

\* Number of cells of g holding v (row.count(v) summed over the rows).
CountCells(g, v) == Cardinality({rc \in Rows \X Rows : g[rc[1]][rc[2]] = v})

count_stones(g) == <<CountCells(g, 1), CountCells(g, 2)>>

\* What a call leaves behind: the exception raised ("ok" for none) and the
\* three fields of the game.
Outcome(res, g, p, h) ==
    [result |-> res, grid |-> g, current_player |-> p, history |-> h]

Front(s) == SubSeq(s, 1, Len(s) - 1)

Last(s) == s[Len(s)]

(***************************************************************************)
(* GameBase                                                                *)
(***************************************************************************)

\* GameBase.make_move with GomokuGame.check_rules, which accepts everything.
\* A move whose snapshot shares its cells with the live grid: the entry
\* shows the stone placed after it was recorded.
Base_make_move_SharedSnapshot(g, p, h, x, y) ==
    IF ~is_valid(x, y) \/ g[x][y] # 0 THEN Outcome("InvalidMoveError", g, p, h)
    ELSE Outcome("ok", SetCell(g, x, y, p), 3 - p, Append(h, SetCell(g, x, y, p)))

Base_make_move(g, p, h, x, y) ==
    IF ~is_valid(x, y) THEN Outcome("InvalidMoveError", g, p, h)
    ELSE IF g[x][y] # 0 THEN Outcome("InvalidMoveError", g, p, h)
    ELSE Outcome("ok", SetCell(g, x, y, p), 3 - p, Append(h, g))

\* undo that restores the grid and forgets to give the turn back.
undo_NoToggle(g, p, h) ==
    IF h = << >> THEN Outcome("GameStateError", g, p, h)
    ELSE Outcome("ok", Last(h), p, Front(h))

\* An undo that restores the grid and leaves the snapshot on the history.
undo_KeepsSnapshot(g, p, h) ==
    IF h = << >> THEN Outcome("GameStateError", g, p, h)
    ELSE Outcome("ok", Last(h), 3 - p, h)

undo(g, p, h) ==
    IF h = << >> THEN Outcome("GameStateError", g, p, h)
    ELSE Outcome("ok", Last(h), 3 - p, Front(h))

(***************************************************************************)
(* GomokuGame                                                              *)
(***************************************************************************)

\* A scan that leaves out the last direction.
GomokuDirections_NoAntiDiagonal == << <<0, 1>>, <<1, 0>>, <<1, 1>> >>

GomokuDirections == << <<0, 1>>, <<1, 0>>, <<1, 1>>, <<1, -1>> >>

RECURSIVE LineCount(_, _, _, _, _, _)
\* The while loop of GomokuGame.check_winner: the stones of p met from
\* (tr, tc) on in direction (dr, dc).
LineCount(g, tr, tc, dr, dc, p) ==
    IF 0 <= tr /\ tr < Size /\ 0 <= tc /\ tc < Size /\ g[tr][tc] = p
    THEN 1 + LineCount(g, tr + dr, tc + dc, dr, dc, p)
    ELSE 0

\* Position of a cell in the row-by-row scan of the grid.
ScanIndex(rc) == rc[1] * Size + rc[2]

Gomoku_check_winner(g) ==
    LET hits == {rc \in Rows \X Rows :
                    /\ g[rc[1]][rc[2]] # 0
                    /\ \E i \in 1 .. Len(GomokuDirections) :
                          LET d == GomokuDirections[i]
                          IN 1 + LineCount(g, rc[1] + d[1], rc[2] + d[2], d[1], d[2],
                                           g[rc[1]][rc[2]]) >= 5}
    IN IF hits # {}
       THEN LET first == CHOOSE rc \in hits : \A o \in hits : ScanIndex(rc) <= ScanIndex(o)
            IN g[first[1]][first[2]]
       ELSE IF \E r \in Rows : \E c \in Rows : g[r][c] = 0 THEN 0
       ELSE 3

(***************************************************************************)
(* GoGame                                                                  *)
(***************************************************************************)

\* The order in which GoGame.make_move visits the neighbours of the stone.
GoDirections == << <<-1, 0>>, <<1, 0>>, <<0, -1>>, <<0, 1>> >>

Neighbours4(rc) ==
    {n \in {<<rc[1] + GoDirections[i][1], rc[2] + GoDirections[i][2]>> : i \in 1 .. 4} :
        is_valid(n[1], n[2])}

RECURSIVE GrowGroup(_, _, _, _)
\* The search of _get_group: `frontier` are the stones still on the stack,
\* `visited` the stones seen so far.
GrowGroup(g, color, frontier, visited) ==
    IF frontier = {} THEN visited
    ELSE LET fresh == {n \in UNION {Neighbours4(s) : s \in frontier} :
                          n \notin visited /\ g[n[1]][n[2]] = color}
         IN GrowGroup(g, color, fresh, visited \cup fresh)

get_group(g, r, c) == GrowGroup(g, g[r][c], {<<r, c>>}, {<<r, c>>})

\* A liberty test that looks at the stone alone, not at its group.
has_liberty_StoneOnly(g, r, c) ==
    \E n \in Neighbours4(<<r, c>>) : g[n[1]][n[2]] = 0

\* A liberty test that finds every group alive.
has_liberty_Always(g, r, c) == TRUE

has_liberty(g, r, c) ==
    \E s \in get_group(g, r, c) : \E n \in Neighbours4(s) : g[n[1]][n[2]] = 0

\* A capture that lifts the one stone it was pointed at.
capture_group_OneStone(g, r, c) == SetCell(g, r, c, 0)

capture_group(g, r, c) ==
    LET group == get_group(g, r, c)
    IN [i \in Rows |-> [j \in Rows |-> IF <<i, j>> \in group THEN 0 ELSE g[i][j]]]

RECURSIVE GoCaptureLoop(_, _, _, _, _, _)
\* The loop of GoGame.make_move over the four neighbours of (x, y), from the
\* i-th direction on: the grid and captured_any after it.
GoCaptureLoop(g, x, y, opponent, i, captured_any) ==
    IF i > Len(GoDirections) THEN [grid |-> g, captured_any |-> captured_any]
    ELSE LET nr == x + GoDirections[i][1]
             nc == y + GoDirections[i][2]
         IN IF is_valid(nr, nc) /\ g[nr][nc] = opponent /\ ~has_liberty(g, nr, nc)
            THEN GoCaptureLoop(capture_group(g, nr, nc), x, y, opponent, i + 1, TRUE)
            ELSE GoCaptureLoop(g, x, y, opponent, i + 1, captured_any)

\* A suicide rollback that restores the grid from the snapshot and leaves
\* the snapshot on the history.
Go_make_move_KeepsSnapshot(g, p, h, x, y) ==
    IF ~is_valid(x, y) THEN Outcome("InvalidMoveError", g, p, h)
    ELSE IF g[x][y] # 0 THEN Outcome("InvalidMoveError", g, p, h)
    ELSE LET h1 == Append(h, g)
             after == GoCaptureLoop(SetCell(g, x, y, p), x, y, 3 - p, 1, FALSE)
         IN IF ~after.captured_any /\ ~has_liberty(after.grid, x, y)
            THEN Outcome("InvalidMoveError", Last(h1), p, h1)
            ELSE Outcome("ok", after.grid, 3 - p, h1)

Go_make_move(g, p, h, x, y) ==
    IF ~is_valid(x, y) THEN Outcome("InvalidMoveError", g, p, h)
    ELSE IF g[x][y] # 0 THEN Outcome("InvalidMoveError", g, p, h)
    ELSE LET h1 == Append(h, g)
             after == GoCaptureLoop(SetCell(g, x, y, p), x, y, 3 - p, 1, FALSE)
         IN IF ~after.captured_any /\ ~has_liberty(after.grid, x, y)
            THEN Outcome("InvalidMoveError", Last(h1), p, Front(h1))
            ELSE Outcome("ok", after.grid, 3 - p, h1)

Go_check_winner(g) ==
    LET black == count_stones(g)[1]
        white == count_stones(g)[2]
    IN IF black > white THEN 1 ELSE IF white > black THEN 2 ELSE 0

\* A pass that records nothing.
pass_turn_NoSnapshot(g, p, h) == Outcome("ok", g, 3 - p, h)

\* GoGame.pass_turn and OthelloGame.pass_turn.
pass_turn(g, p, h) == Outcome("ok", g, 3 - p, Append(h, g))

(***************************************************************************)
(* OthelloGame                                                             *)
(***************************************************************************)

\* An Othello board that starts with both stones of a colour in one row.
OthelloInit_Rows(size) ==
    LET mid == size \div 2
    IN [Board(size) EXCEPT ![mid - 1][mid - 1] = 2, ![mid - 1][mid] = 2,
                           ![mid][mid] = 1, ![mid][mid - 1] = 1]

OthelloInit(size) ==
    LET mid == size \div 2
    IN [Board(size) EXCEPT ![mid - 1][mid - 1] = 2, ![mid][mid] = 2,
                           ![mid - 1][mid] = 1, ![mid][mid - 1] = 1]

OthelloDirections ==
    << <<-1, -1>>, <<-1, 0>>, <<-1, 1>>, <<0, -1>>,
       <<0, 1>>, <<1, -1>>, <<1, 0>>, <<1, 1>> >>

RECURSIVE RunLength(_, _, _, _, _, _)
\* The while loop of _get_flipped_stones: the number of opponent stones met
\* from (r, c) on in direction (dr, dc).
RunLength(g, r, c, dr, dc, opponent) ==
    IF is_valid(r, c) /\ g[r][c] = opponent
    THEN 1 + RunLength(g, r + dr, c + dc, dr, dc, opponent)
    ELSE 0

\* A direction scan that keeps the run whatever cell ends it.
FlippedInDirection_AnyEnd(g, x, y, player, d) ==
    LET n == RunLength(g, x + d[1], y + d[2], d[1], d[2], 3 - player)
    IN {<<x + k * d[1], y + k * d[2]>> : k \in 1 .. n}

\* The stones `temp` of one direction, kept when the run ends on a stone of
\* `player`.
FlippedInDirection(g, x, y, player, d) ==
    LET n == RunLength(g, x + d[1], y + d[2], d[1], d[2], 3 - player)
        r == x + (n + 1) * d[1]
        c == y + (n + 1) * d[2]
    IN IF is_valid(r, c) /\ g[r][c] = player
       THEN {<<x + k * d[1], y + k * d[2]>> : k \in 1 .. n}
       ELSE {}

\* A scan that stops at the first direction that brackets a run.
get_flipped_stones_FirstDirection(g, x, y, player) ==
    LET hits == {i \in 1 .. Len(OthelloDirections) :
                    FlippedInDirection(g, x, y, player, OthelloDirections[i]) # {}}
    IN IF hits = {} THEN {}
       ELSE FlippedInDirection(g, x, y, player,
                OthelloDirections[CHOOSE i \in hits : \A j \in hits : i <= j])

get_flipped_stones(g, x, y, player) ==
    UNION {FlippedInDirection(g, x, y, player, OthelloDirections[i]) :
              i \in 1 .. Len(OthelloDirections)}

\* A move that records its snapshot before it knows the move is legal.
Othello_make_move_EarlySnapshot(g, p, h, x, y) ==
    IF ~is_valid(x, y) \/ g[x][y] # 0 THEN Outcome("InvalidMoveError", g, p, h)
    ELSE LET flipped_stones == get_flipped_stones(g, x, y, p)
         IN IF flipped_stones = {}
            THEN Outcome("InvalidMoveError", g, p, Append(h, g))
            ELSE Outcome("ok",
                         [i \in Rows |-> [j \in Rows |->
                             IF <<i, j>> = <<x, y>> \/ <<i, j>> \in flipped_stones
                             THEN p ELSE g[i][j]]],
                         3 - p, Append(h, g))

Othello_make_move(g, p, h, x, y) ==
    IF ~is_valid(x, y) \/ g[x][y] # 0 THEN Outcome("InvalidMoveError", g, p, h)
    ELSE LET flipped_stones == get_flipped_stones(g, x, y, p)
         IN IF flipped_stones = {} THEN Outcome("InvalidMoveError", g, p, h)
            ELSE Outcome("ok",
                         [i \in Rows |-> [j \in Rows |->
                             IF <<i, j>> = <<x, y>> \/ <<i, j>> \in flipped_stones
                             THEN p ELSE g[i][j]]],
                         3 - p, Append(h, g))

\* The cells OthelloGame.get_valid_moves returns.
Othello_get_valid_moves(g, p) ==
    {rc \in Rows \X Rows :
        g[rc[1]][rc[2]] = 0 /\ get_flipped_stones(g, rc[1], rc[2], p) # {}}

\* A game-over test that asks only the player to move for moves.
Othello_check_winner_OwnMovesOnly(g, p) ==
    LET p1_moves == Othello_get_valid_moves(g, p)
        black == count_stones(g)[1]
        white == count_stones(g)[2]
    IN IF p1_moves = {}
       THEN IF black > white THEN 1 ELSE IF white > black THEN 2 ELSE 3
       ELSE 0

Othello_check_winner(g, p) ==
    LET p1_moves == Othello_get_valid_moves(g, p)
        p2_moves == Othello_get_valid_moves(g, 3 - p)
        black == count_stones(g)[1]
        white == count_stones(g)[2]
    IN IF p1_moves = {} /\ p2_moves = {}
       THEN IF black > white THEN 1 ELSE IF white > black THEN 2 ELSE 3
       ELSE 0

(***************************************************************************)
(* The game object                                                         *)
(***************************************************************************)

\* g_type(size): the grid a new game of the variant starts with.
InitialGrid(v) == IF v = "Othello" THEN OthelloInit(Size) ELSE Board(Size)

\* g_type(size): the fields of the new game, or ValueError and the fields
\* of the game in place when GameBase.__init__ refuses the size.
NewGame(v, size, g, p, h) ==
    IF ~(Size <= size /\ size <= MaxSize) THEN Outcome("ValueError", g, p, h)
    ELSE Outcome("ok", IF v = "Othello" THEN OthelloInit(size) ELSE Board(size),
                 1, << >>)

\* self.game.make_move(x, y), dispatched on the class of the game.
make_move(v, g, p, h, x, y) ==
    IF v = "Go" THEN Go_make_move(g, p, h, x, y)
    ELSE IF v = "Othello" THEN Othello_make_move(g, p, h, x, y)
    ELSE Base_make_move(g, p, h, x, y)

\* self.game.check_winner(), dispatched on the class of the game.
check_winner(v, g, p) ==
    IF v = "Go" THEN Go_check_winner(g)
    ELSE IF v = "Othello" THEN Othello_check_winner(g, p)
    ELSE Gomoku_check_winner(g)

\* OthelloGame.check_rules: raises when the move would flip nothing.
Othello_check_rules_Permissive(g, x, y, player) == "ok"

Othello_check_rules(g, x, y, player) ==
    IF get_flipped_stones(g, x, y, player) = {} THEN "InvalidMoveError" ELSE "ok"

\* self.game.check_rules(x, y, player): GomokuGame and GoGame only pass.
check_rules(v, g, x, y, player) ==
    IF v = "Othello" THEN Othello_check_rules(g, x, y, player) ELSE "ok"

\* GameBase.get_valid_moves: the empty cells check_rules raises nothing
\* for.  The list is kept as the set of its coordinates; the scan visits
\* every cell once.
Base_get_valid_moves(v, g, p) ==
    {rc \in Rows \X Rows :
        g[rc[1]][rc[2]] = 0 /\ check_rules(v, g, rc[1], rc[2], p) = "ok"}

\* self.game.get_valid_moves(), dispatched on the class of the game.
get_valid_moves(v, g, p) ==
    IF v = "Othello" THEN Othello_get_valid_moves(g, p)
    ELSE Base_get_valid_moves(v, g, p)

\* A probe of the opponent's moves that does not switch back.
Othello_check_winner_player_NoSwitchBack(p) == 3 - p

\* current_player as OthelloGame.check_winner leaves it: switched to the
\* opponent for the second scan and switched again after it.
Othello_check_winner_player(p) ==
    LET probing == 3 - p
    IN 3 - probing

\* current_player after self.game.check_winner().
check_winner_player(v, p) ==
    IF v = "Othello" THEN Othello_check_winner_player(p) ELSE p

\* Coordinates the callers try: a corner region for Gomoku and Go, the
\* cells around the centre for Othello, and two outside the board.
OffBoard == {<<-1, 0>>, <<0, Size>>}

GomokuCells == {<<0, 0>>, <<0, 1>>, <<1, 0>>, <<1, 1>>}

GoCells == {<<0, 0>>, <<0, 1>>, <<1, 0>>, <<1, 1>>, <<2, 0>>}

OthelloCells ==
    {<<2, 3>>, <<5, 4>>, <<3, 5>>, <<2, 4>>, <<5, 5>>, <<4, 6>>, <<5, 3>>,
     <<6, 4>>, <<4, 5>>, <<4, 2>>, <<3, 3>>}

MoveInputs(v) ==
    OffBoard \cup (IF v = "Go" THEN GoCells
                   ELSE IF v = "Othello" THEN OthelloCells ELSE GomokuCells)

\* GameClient.__init__: no pass counted, both players human.
PvP == [i \in 1 .. 2 |-> 0]

ClientInit ==
    /\ pass_count = 0
    /\ player_settings = PvP
    /\ in_game_loop = FALSE
    /\ passes = 0

Init ==
    /\ variant \in Variants
    /\ grid = InitialGrid(variant)
    /\ current_player = 1
    /\ history = << >>
    /\ op = "new"
    /\ arg = << >>
    /\ result = "ok"
    /\ net = 0
    /\ undos = 0
    /\ winner = 0
    /\ opening = << >>
    /\ ClientInit

\* The fields of the game after a call that left `o`.
Commit(o) ==
    /\ grid' = o.grid
    /\ current_player' = o.current_player
    /\ history' = o.history
    /\ result' = o.result

MakeMove(cells, maxh) ==
    /\ Len(history) < maxh
    /\ \E rc \in cells :
        LET o == make_move(variant, grid, current_player, history, rc[1], rc[2])
        IN /\ Commit(o)
           /\ op' = "make_move"
           /\ arg' = rc
           /\ net' = IF o.result = "ok" THEN net + 1 ELSE net
    /\ undos' = 0
    /\ UNCHANGED <<variant, winner, opening, client>>

PassTurn(maxh) ==
    /\ variant \in {"Go", "Othello"}
    /\ Len(history) < maxh
    /\ Commit(pass_turn(grid, current_player, history))
    /\ op' = "pass_turn"
    /\ arg' = << >>
    /\ net' = net + 1
    /\ undos' = 0
    /\ UNCHANGED <<variant, winner, opening, client>>

Undo ==
    /\ LET o == undo(grid, current_player, history)
       IN /\ Commit(o)
          /\ net' = IF o.result = "ok" THEN net - 1 ELSE net
          /\ undos' = IF o.result = "ok" THEN undos + 1 ELSE 0
    /\ op' = "undo"
    /\ arg' = << >>
    /\ UNCHANGED <<variant, winner, opening, client>>

Next ==
    \/ MakeMove(MoveInputs(variant), MaxHist)
    \/ PassTurn(MaxHist)
    \/ Undo

Spec == Init /\ [][Next]_vars

(***************************************************************************)
(* The ko scenario: a Go game played in the corner where a ko can form.    *)
(***************************************************************************)

InitKo == Init /\ variant = "Go"

NextKo ==
    \/ MakeMove(GoCells, MaxKoHist)
    \/ PassTurn(MaxKoHist)
    \/ Undo

SpecKo == InitKo /\ [][NextKo]_vars

(***************************************************************************)
(* The queries: a caller reaches a position by moves, passes and undos and *)
(* asks the game for the legality of a move, the list of legal moves or    *)
(* the winner.                                                             *)
(***************************************************************************)

CheckRules ==
    /\ \E rc \in MoveInputs(variant) :
        /\ result' = check_rules(variant, grid, rc[1], rc[2], current_player)
        /\ arg' = rc
    /\ op' = "check_rules"
    /\ UNCHANGED <<variant, grid, current_player, history, net, undos,
                   winner, opening, client>>

GetValidMoves ==
    /\ result' = get_valid_moves(variant, grid, current_player)
    /\ op' = "get_valid_moves"
    /\ arg' = << >>
    /\ UNCHANGED <<variant, grid, current_player, history, net, undos,
                   winner, opening, client>>

CheckWinner ==
    /\ result' = check_winner(variant, grid, current_player)
    /\ current_player' = check_winner_player(variant, current_player)
    /\ op' = "check_winner"
    /\ arg' = << >>
    /\ UNCHANGED <<variant, grid, history, net, undos, winner, opening, client>>

NextQuery ==
    \/ MakeMove(MoveInputs(variant), MaxQueryHist)
    \/ PassTurn(MaxQueryHist)
    \/ Undo
    \/ CheckRules
    \/ GetValidMoves
    \/ CheckWinner

SpecQuery == Init /\ [][NextQuery]_vars

(***************************************************************************)
(* The turn loop on agreed openings: GameClient.game_loop checks for the   *)
(* end of the game, passes for an Othello player without a move, and       *)
(* otherwise hands the player's move to the game.  The players follow an   *)
(* opening and then play any empty cell.                                   *)
(***************************************************************************)

CellOf(n) == <<n \div Size, n % Size>>

\* The cells of S in the order of the scan.
RowMajor(S) ==
    [i \in 1 .. Cardinality(S) |->
        CHOOSE s \in S : Cardinality({t \in S : ScanIndex(t) < ScanIndex(s)}) = i - 1]

\* A full board without five in a row: the colours alternate along a row
\* and shift by one every second row.
Pattern(rc) == 1 + ((rc[2] + rc[1] \div 2) % 2)

\* The cells a Gomoku opening leaves empty, one set for each scenario.
GomokuWindows ==
    { {<<0, 2>>, <<0, 4>>, <<1, 1>>, <<1, 3>>},
      {<<0, 2>>, <<0, 4>>, <<1, 1>>, <<2, 2>>},
      {<<0, 2>>, <<0, 4>>, <<1, 5>>, <<2, 4>>},
      {<<0, 2>>, <<0, 4>>, <<2, 0>>, <<3, 0>>},
      {<<0, 2>>, <<0, 4>>, <<1, 3>>, <<2, 2>>},
      {<<1, 1>>, <<1, 2>>, <<1, 3>>, <<2, 3>>},
      {<<1, 1>>, <<1, 3>>, <<1, 4>>, <<2, 3>>},
      {<<1, 3>>, <<2, 1>>, <<2, 2>>, <<3, 1>>} }

\* The opening that fills the pattern outside the window W, the players
\* taking the cells of their colour in the order of the scan.
GomokuOpening(W) ==
    LET a == RowMajor({rc \in Rows \X Rows : Pattern(rc) = 1} \ W)
        b == RowMajor({rc \in Rows \X Rows : Pattern(rc) = 2} \ W)
    IN [n \in 1 .. (Len(a) + Len(b)) |->
           IF n % 2 = 1 THEN a[(n + 1) \div 2] ELSE b[n \div 2]]

\* A recorded Othello game that fills the board, as positions in the scan.
OthelloGameRecord ==
    << 26, 34, 44, 18, 33, 45, 37, 41, 25, 43, 51, 17, 24, 42, 11, 9, 52, 53, 46, 50,
       8, 30, 62, 54, 59, 4, 55, 58, 0, 20, 32, 10, 49, 40, 21, 57, 39, 60, 38, 63,
       48, 56, 19, 23, 22, 16, 12, 13, 5, 61, 31, 14, 3, 2, 15, 47, 1, 7, 29, 6 >>

\* The shortest Othello game: player 1 takes every stone in nine moves.
OthelloWipeout == << 44, 29, 20, 45, 38, 43, 52, 37, 34 >>

OthelloOpenings ==
    { [n \in 1 .. (Len(OthelloGameRecord) - OthelloFree) |-> CellOf(OthelloGameRecord[n])],
      [n \in 1 .. Len(OthelloWipeout) |-> CellOf(OthelloWipeout[n])] }

Openings(v) ==
    IF v = "Othello" THEN OthelloOpenings
    ELSE {GomokuOpening(W) : W \in GomokuWindows}

InitPlay ==
    /\ variant \in {"Gomoku", "Othello"}
    /\ grid = InitialGrid(variant)
    /\ current_player = 1
    /\ history = << >>
    /\ op = "new"
    /\ arg = << >>
    /\ result = "ok"
    /\ net = 0
    /\ undos = 0
    /\ winner = check_winner(variant, grid, current_player)
    /\ opening \in Openings(variant)
    /\ ClientInit

\* A loop that never passes for a player.
MustPass_Never == FALSE

\* The player to move has to pass: an Othello player without a legal move.
MustPass ==
    variant = "Othello" /\ Othello_get_valid_moves(grid, current_player) = {}

EmptyCells(g) == {rc \in Rows \X Rows : g[rc[1]][rc[2]] = 0}

\* The command "move r c" of the player to move.
LoopMove ==
    /\ winner = 0
    /\ ~MustPass
    /\ \E rc \in (IF opening # << >> THEN {Head(opening)} ELSE EmptyCells(grid)) :
        LET o == make_move(variant, grid, current_player, history, rc[1], rc[2])
        IN /\ Commit(o)
           /\ op' = "make_move"
           /\ arg' = rc
           /\ net' = IF o.result = "ok" THEN net + 1 ELSE net
           /\ opening' = IF opening # << >> /\ o.result = "ok" THEN Tail(opening)
                          ELSE opening
           /\ winner' = check_winner(variant, o.grid, o.current_player)
    /\ undos' = 0
    /\ UNCHANGED <<variant, client>>

\* The pass the loop makes for an Othello player without a legal move.
LoopAutoPass ==
    /\ winner = 0
    /\ MustPass
    /\ LET o == pass_turn(grid, current_player, history)
       IN /\ Commit(o)
          /\ winner' = check_winner(variant, o.grid, o.current_player)
    /\ op' = "pass_turn"
    /\ arg' = << >>
    /\ net' = net + 1
    /\ undos' = 0
    /\ UNCHANGED <<variant, opening, client>>

NextPlay == LoopMove \/ LoopAutoPass

SpecPlay == InitPlay /\ [][NextPlay]_vars

\* A turn of the loop that counts: an accepted move or the pass made for a
\* player without a legal move; both add one to the number of turns taken,
\* a rejected move does not.
AcceptedTurn == winner = 0 /\ net' = net + 1

\* The loop can take a turn that counts: the pass is due, or one of the
\* moves the player may enter is accepted.
TurnPossible ==
    \/ MustPass
    \/ \E rc \in (IF opening # << >> THEN {Head(opening)} ELSE EmptyCells(grid)) :
          make_move(variant, grid, current_player, history, rc[1], rc[2]).result = "ok"

\* The turn loop with players who go on: game_loop asks again after every
\* rejected command and returns only when the game is over, so that with
\* players who enter an accepted move in the end every turn is completed.
SpecPlayFair == InitPlay /\ [][NextPlay]_vars /\ WF_net(AcceptedTurn)

(***************************************************************************)
(* The constructors: a caller builds games of every variant and size.      *)
(***************************************************************************)

Construct ==
    /\ \E v \in Variants : \E size \in (Size - 1) .. (MaxSize + 1) :
        LET o == NewGame(v, size, grid, current_player, history)
        IN /\ Commit(o)
           /\ variant' = IF o.result = "ok" THEN v ELSE variant
           /\ arg' = <<size>>
    /\ op' = "new"
    /\ UNCHANGED <<net, undos, winner, opening, client>>

NextNew == Construct

SpecNew == Init /\ [][NextNew]_vars

(***************************************************************************)
(* GameClient: the command start, the turn loop game_loop with its AI      *)
(* players and forced passes, and the commands of handle_input that        *)
(* change the game.  A game follows an opening that ends in free play, or  *)
(* it is played without one on a few cells up to MaxLoopHist snapshots.    *)
(***************************************************************************)

\* start <type> <size> pve: player 2 is an AI of the default level 1.
PvE == [i \in 1 .. 2 |-> IF i = 2 THEN 1 ELSE 0]

\* start <type> <size> eve: both players are AIs.
EvE == [i \in 1 .. 2 |-> i]

Modes == {PvP, PvE, EvE}

\* Stands at the end of an opening for the moves the players choose freely.
AnyCell == <<Size, Size>>

\* The openings of SpecPlay, each followed by free play.
GomokuScenarios == {Append(o, AnyCell) : o \in Openings("Gomoku")}

OthelloScenarios == {Append(o, AnyCell) : o \in Openings("Othello")}

ClientOpenings(v) ==
    {<< >>} \cup (IF v = "Gomoku" THEN GomokuScenarios
                  ELSE IF v = "Othello" THEN OthelloScenarios ELSE {})

\* The cells tried in a game without an opening.
LoopCells(v) ==
    IF v = "Go" THEN GoCells
    ELSE IF v = "Othello" THEN {<<2, 3>>, <<2, 4>>, <<3, 3>>} ELSE GomokuCells

\* The coordinates the player to move may try.
Tried ==
    IF opening = << >>
    THEN IF Len(history) < MaxLoopHist THEN LoopCells(variant) ELSE {}
    ELSE IF Head(opening) = AnyCell THEN EmptyCells(grid) ELSE {Head(opening)}

\* GameClient._format_winner: the message, named by the result it
\* announces, 0 for None.
format_winner(winner_id) == IF winner_id \in {1, 2, 3} THEN winner_id ELSE 0

\* GameClient.check_game_over.
check_game_over(v, g, p, pc) ==
    IF v = "Go"
    THEN IF pc >= 2 THEN format_winner(check_winner(v, g, p)) ELSE 0
    ELSE LET winner_id == check_winner(v, g, p)
         IN IF winner_id # 0 THEN format_winner(winner_id) ELSE 0

\* A loop that never returns on a result.
game_over_Never(w) == FALSE

\* game_loop returns when check_game_over gave a result.
game_over(w) == w # 0

\* A client that lets every game pass.
accepts_pass_Any(v) == TRUE

\* The command pass is for Go only.
accepts_pass(v) == v = "Go"

\* An undo command that leaves the pass counter alone.
after_undo_KeepsCount(pc) == pc

\* self.pass_count after an accepted undo command.
after_undo(pc) == 0

\* A restart that empties the board and keeps the history.
restart_KeepsHistory(v, g, p, h) ==
    Outcome("ok", IF v = "Othello" THEN OthelloInit(Cardinality(DOMAIN g))
                  ELSE Board(Cardinality(DOMAIN g)), 1, h)

\* The command restart: g_type(size) on the class and the board size of
\* the game in place.
restart(v, g, p, h) == NewGame(v, Cardinality(DOMAIN g), g, p, h)

\* A client that takes no player for an AI.
is_ai_Never(settings, p) == FALSE

\* self.player_settings[p] > 0: player p is an AI.
is_ai(settings, p) == settings[p] > 0

\* The top of the next round of game_loop: the check for the end of the
\* game on the fields the round has left.
LoopCheck(v, o, pc) ==
    /\ winner' = check_game_over(v, o.grid, o.current_player, pc)
    /\ in_game_loop' = ~game_over(winner')

InitClient ==
    /\ variant \in Variants
    /\ grid = InitialGrid(variant)
    /\ current_player = 1
    /\ history = << >>
    /\ op = "start"
    /\ arg = << >>
    /\ result = "ok"
    /\ net = 0
    /\ undos = 0
    /\ opening \in ClientOpenings(variant)
    /\ pass_count = 0
    /\ player_settings \in Modes
    /\ passes = 0
    /\ winner = check_game_over(variant, grid, current_player, pass_count)
    /\ in_game_loop = ~game_over(winner)

\* The command start of the main menu, with the smallest board.
Start ==
    /\ ~in_game_loop
    /\ \E v \in Variants : \E mode \in Modes : \E o \in ClientOpenings(v) :
        LET new == NewGame(v, Size, grid, current_player, history)
        IN /\ variant' = v
           /\ Commit(new)
           /\ player_settings' = mode
           /\ opening' = o
           /\ pass_count' = 0
           /\ LoopCheck(v, new, 0)
    /\ op' = "start"
    /\ arg' = << >>
    /\ net' = 0
    /\ undos' = 0
    /\ passes' = 0

\* A human player is asked for a command.
HumanTurn ==
    /\ in_game_loop
    /\ player_settings[current_player] = 0
    /\ ~MustPass

\* The command "move r c".
CmdMove ==
    /\ HumanTurn
    /\ \E rc \in Tried :
        LET o == make_move(variant, grid, current_player, history, rc[1], rc[2])
            pc == IF o.result = "ok" THEN 0 ELSE pass_count
        IN /\ Commit(o)
           /\ arg' = rc
           /\ net' = IF o.result = "ok" THEN net + 1 ELSE net
           /\ opening' = IF opening # << >> /\ Head(opening) # AnyCell /\ o.result = "ok"
                          THEN Tail(opening) ELSE opening
           /\ pass_count' = pc
           /\ passes' = IF o.result = "ok" THEN 0 ELSE passes
           /\ LoopCheck(variant, o, pc)
    /\ op' = "make_move"
    /\ undos' = 0
    /\ UNCHANGED <<variant, player_settings>>

\* The command "pass".
CmdPass ==
    /\ HumanTurn
    /\ opening = << >>
    /\ Len(history) < MaxLoopHist
    /\ IF accepts_pass(variant)
       THEN LET o == pass_turn(grid, current_player, history)
            IN /\ Commit(o)
               /\ op' = "pass_turn"
               /\ net' = net + 1
               /\ pass_count' = pass_count + 1
               /\ passes' = passes + 1
               /\ LoopCheck(variant, o, pass_count + 1)
       ELSE /\ result' = "InvalidCommandError"
            /\ op' = "pass"
            /\ UNCHANGED <<grid, current_player, history, net, pass_count,
                           passes, winner, in_game_loop>>
    /\ arg' = << >>
    /\ undos' = 0
    /\ UNCHANGED <<variant, opening, player_settings>>

\* The command "undo": one step back, and one more when that leaves the
\* turn to an AI.  The result is "NoFurtherUndo" when the second step
\* finds the history empty.
CmdUndo ==
    /\ HumanTurn
    /\ opening = << >>
    /\ LET o1 == undo(grid, current_player, history)
           o2 == undo(o1.grid, o1.current_player, o1.history)
           twice == o1.result = "ok" /\ is_ai(player_settings, o1.current_player)
           o == IF ~twice THEN o1
                ELSE IF o2.result = "ok" THEN o2
                ELSE [o1 EXCEPT !.result = "NoFurtherUndo"]
           steps == IF o1.result # "ok" THEN 0
                    ELSE IF twice /\ o2.result = "ok" THEN 2 ELSE 1
           pc == IF o.result = "ok" THEN after_undo(pass_count) ELSE pass_count
       IN /\ Commit(o)
          /\ net' = net - steps
          /\ undos' = IF steps = 0 THEN 0 ELSE undos + steps
          /\ pass_count' = pc
          /\ passes' = IF steps = 0 THEN passes ELSE 0
          /\ LoopCheck(variant, o, pc)
    /\ op' = "undo"
    /\ arg' = << >>
    /\ UNCHANGED <<variant, opening, player_settings>>

\* The command "restart": a new game of the same class and size.  The
\* players go on without an opening.
CmdRestart ==
    /\ HumanTurn
    /\ LET new == restart(variant, grid, current_player, history)
       IN /\ Commit(new)
          /\ LoopCheck(variant, new, 0)
    /\ pass_count' = 0
    /\ op' = "restart"
    /\ arg' = << >>
    /\ net' = 0
    /\ undos' = 0
    /\ passes' = 0
    /\ opening' = << >>
    /\ UNCHANGED <<variant, player_settings>>

\* The pass the loop makes for a human Othello player without a move.
HumanAutoPass ==
    /\ in_game_loop
    /\ player_settings[current_player] = 0
    /\ MustPass
    /\ LET o == pass_turn(grid, current_player, history)
       IN /\ Commit(o)
          /\ LoopCheck(variant, o, pass_count)
    /\ op' = "pass_turn"
    /\ arg' = << >>
    /\ net' = net + 1
    /\ undos' = 0
    /\ passes' = passes + 1
    /\ UNCHANGED <<variant, opening, pass_count, player_settings>>

\* The round of an AI player: a forced pass in Othello, the move
\* AIPlayer.get_move picks from get_valid_moves, or a pass in Go when
\* there is none.  An exception of make_move ends game_loop.
AiTurn ==
    /\ in_game_loop
    /\ player_settings[current_player] > 0
    /\ LET valid_moves == get_valid_moves(variant, grid, current_player)
       IN IF valid_moves = {}
          THEN /\ IF variant \in {"Go", "Othello"}
                  THEN LET o == pass_turn(grid, current_player, history)
                           pc == IF variant = "Go" THEN pass_count + 1 ELSE pass_count
                       IN /\ Commit(o)
                          /\ op' = "pass_turn"
                          /\ net' = net + 1
                          /\ pass_count' = pc
                          /\ passes' = passes + 1
                          /\ LoopCheck(variant, o, pc)
                  ELSE /\ op' = "get_move"
                       /\ result' = "ok"
                       /\ UNCHANGED <<grid, current_player, history, net,
                                      pass_count, passes, winner, in_game_loop>>
               /\ arg' = << >>
               /\ UNCHANGED opening
          ELSE \E move \in valid_moves \cap Tried :
                 LET o == make_move(variant, grid, current_player, history,
                                    move[1], move[2])
                 IN /\ Commit(o)
                    /\ op' = "make_move"
                    /\ arg' = move
                    /\ IF o.result = "ok"
                       THEN /\ net' = net + 1
                            /\ pass_count' = 0
                            /\ passes' = 0
                            /\ opening' = IF opening # << >> /\ Head(opening) # AnyCell
                                           THEN Tail(opening) ELSE opening
                            /\ LoopCheck(variant, o, 0)
                       ELSE /\ in_game_loop' = FALSE
                            /\ UNCHANGED <<net, pass_count, passes, opening, winner>>
    /\ undos' = 0
    /\ UNCHANGED <<variant, player_settings>>

NextClient ==
    \/ Start
    \/ CmdMove
    \/ CmdPass
    \/ CmdUndo
    \/ CmdRestart
    \/ HumanAutoPass
    \/ AiTurn

SpecClient == InitClient /\ [][NextClient]_vars

(***************************************************************************)
(* Saved games: a Go game of two human players is played, left with quit   *)
(* and replaced by load.  The files hold what pickle.load would return.    *)
(***************************************************************************)

\* A file written by the command save after the first move of a Go game.
SavedGame ==
    [readable |-> TRUE, variant |-> "Go",
     grid |-> SetCell(Board(Size), 0, 0, 1), current_player |-> 2,
     history |-> <<Board(Size)>>, player_settings_backup |-> PvP]

\* The same file with a cell that holds no colour.
BadCellFile == [SavedGame EXCEPT !.grid = SetCell(Board(Size), 0, 0, 7)]

\* The same file with a grid of two rows of three cells.
BadGridFile == [SavedGame EXCEPT !.grid = [r \in 0 .. 1 |-> [c \in 0 .. 2 |-> 0]]]

\* A pickle of an object that is no game of the three classes.
ForeignFile ==
    [SavedGame EXCEPT !.variant = "dict", !.grid = << >>, !.history = << >>]

\* A file pickle.load cannot read.
UnreadableFile ==
    [SavedGame EXCEPT !.readable = FALSE, !.grid = << >>, !.history = << >>]

Files == {SavedGame, BadCellFile, BadGridFile, ForeignFile, UnreadableFile}

\* GameClient.load_game: the game of the file replaces self.game when
\* pickle.load returns; an exception of open or pickle.load is raised as
\* GameStateError.
load_game(file, g, p, h) ==
    IF ~file.readable THEN Outcome("GameStateError", g, p, h)
    ELSE Outcome("ok", file.grid, file.current_player, file.history)

\* The files a player continues to play; the others are looked at in
\* replay mode, which changes nothing.
Playable == {SavedGame, BadCellFile}

InitLoad == InitClient /\ variant = "Go" /\ player_settings = PvP

\* The command "quit" of the turn loop: back to the main menu, the game
\* stays in self.game.
CmdQuit ==
    /\ HumanTurn
    /\ in_game_loop' = FALSE
    /\ op' = "quit"
    /\ arg' = << >>
    /\ result' = "ok"
    /\ UNCHANGED <<variant, grid, current_player, history, net, undos,
                   winner, opening, pass_count, player_settings, passes>>

\* The command "load <filepath>" of the main menu, followed by the replay
\* or by game_loop.
Load ==
    /\ ~in_game_loop
    /\ \E file \in Files : \E replay \in BOOLEAN :
        LET o == load_game(file, grid, current_player, history)
        IN /\ replay \/ file \in Playable
           /\ Commit(o)
           /\ arg' = <<file>>
           /\ IF o.result = "ok"
              THEN /\ variant' = file.variant
                   /\ player_settings' = file.player_settings_backup
                   /\ pass_count' = 0
                   /\ passes' = 0
                   /\ net' = Len(file.history)
                   /\ IF replay
                      THEN UNCHANGED <<winner, in_game_loop>>
                      ELSE LoopCheck(file.variant, o, 0)
              ELSE UNCHANGED <<variant, player_settings, pass_count, passes,
                               net, winner, in_game_loop>>
    /\ op' = "load"
    /\ undos' = 0
    /\ UNCHANGED opening

NextLoad ==
    \/ CmdMove
    \/ CmdPass
    \/ CmdUndo
    \/ CmdQuit
    \/ Load

SpecLoad == InitLoad /\ [][NextLoad]_vars

(***************************************************************************)
(* Properties                                                              *)
(***************************************************************************)

Abs(n) == IF n < 0 THEN -n ELSE n

\* The cells orthogonally next to s.
Adj(s) ==
    {n \in ((s[1] - 1) .. (s[1] + 1)) \X ((s[2] - 1) .. (s[2] + 1)) :
        is_valid(n[1], n[2]) /\ Abs(n[1] - s[1]) + Abs(n[2] - s[2]) = 1}

At(g, s) == g[s[1]][s[2]]

RECURSIVE Component(_, _, _)
\* The stones of `color` joined to the set S by orthogonal steps.
Component(g, color, S) ==
    LET T == S \cup {n \in UNION {Adj(s) : s \in S} : At(g, n) = color}
    IN IF T = S THEN S ELSE Component(g, color, T)

GroupOf(g, s) == Component(g, At(g, s), {s})

Liberties(g, G) == {n \in UNION {Adj(s) : s \in G} : At(g, n) = 0}

\* The opponent stones a Go stone of p at rc takes off the board: every
\* opponent group next to rc that has no liberty once the stone stands.
GoCaptured(g, p, rc) ==
    LET placed == SetCell(g, rc[1], rc[2], p)
    IN UNION {GroupOf(placed, n) :
                 n \in {m \in Adj(rc) : /\ At(placed, m) = 3 - p
                                        /\ Liberties(placed, GroupOf(placed, m)) = {}}}

\* The grid after that stone and those captures.
GoAfter(g, p, rc) ==
    LET dead == GoCaptured(g, p, rc)
    IN [i \in Rows |-> [j \in Rows |->
           IF <<i, j>> = rc THEN p
           ELSE IF <<i, j>> \in dead THEN 0 ELSE g[i][j]]]

GoSuicide(g, p, rc) ==
    /\ GoCaptured(g, p, rc) = {}
    /\ Liberties(GoAfter(g, p, rc), GroupOf(GoAfter(g, p, rc), rc)) = {}

OnEmptyCell(g, rc) == is_valid(rc[1], rc[2]) /\ At(g, rc) = 0

AllDirections == {d \in {-1, 0, 1} \X {-1, 0, 1} : d # <<0, 0>>}

Step(rc, d, k) == <<rc[1] + k * d[1], rc[2] + k * d[2]>>

Holds(g, s, v) == is_valid(s[1], s[2]) /\ At(g, s) = v

\* Direction d brackets n opponent stones of p's move at rc.
Brackets(g, p, rc, d, n) ==
    /\ \A k \in 1 .. n : Holds(g, Step(rc, d, k), 3 - p)
    /\ Holds(g, Step(rc, d, n + 1), p)

OthelloLegal(g, p, rc) ==
    /\ OnEmptyCell(g, rc)
    /\ \E d \in AllDirections : \E n \in 1 .. Size : Brackets(g, p, rc, d, n)

\* The opponent stones of every run that p's move at rc brackets.
OthelloBracketed(g, p, rc) ==
    UNION {{Step(rc, dn[1], k) : k \in 1 .. dn[2]} :
              dn \in {e \in AllDirections \X (1 .. Size) : Brackets(g, p, rc, e[1], e[2])}}

OthelloAfter(g, p, rc) ==
    LET mine == OthelloBracketed(g, p, rc) \cup {rc}
    IN [i \in Rows |-> [j \in Rows |-> IF <<i, j>> \in mine THEN p ELSE g[i][j]]]

Stones(g) == CountCells(g, 1) + CountCells(g, 2)

\* C1: a make_move that raises InvalidMoveError, in any of the three
\* variants, leaves grid, current_player and history as they were.
C1_RejectedMoveIsAtomic ==
    [][(op' = "make_move" /\ result' # "ok")
        => (grid' = grid /\ current_player' = current_player /\ history' = history)]_vars

\* A Go move on an empty cell of the board has just been rejected (suicide).
C1_Witness ==
    /\ variant = "Go" /\ op = "make_move" /\ result = "InvalidMoveError"
    /\ OnEmptyCell(grid, arg)

\* C2: undo succeeds whenever the history is not empty and takes one
\* snapshot off it, and the undo that empties the history leaves the initial
\* grid with player 1 to move: N moves followed by N undos are a round trip.
C2_UndoRoundTrip ==
    [][op' = "undo"
        => IF history = << >> THEN result' = "GameStateError"
           ELSE /\ result' = "ok"
                /\ Len(history') = Len(history) - 1
                /\ history' = << >>
                     => grid' = InitialGrid(variant) /\ current_player' = 1]_vars

\* Three undos in a row have emptied the history of an Othello game, whose
\* every move flips stones.
C2_Witness ==
    /\ variant = "Othello" /\ op = "undo" /\ result = "ok"
    /\ undos >= 3 /\ history = << >>

\* C3: len(history) is the number of accepted moves and passes minus the
\* number of accepted undos.
C3_HistoryLength == Len(history) = net

\* A Go suicide has been rejected with three snapshots on the history.
C3_Witness ==
    /\ variant = "Go" /\ op = "make_move" /\ result = "InvalidMoveError"
    /\ OnEmptyCell(grid, arg) /\ net >= 3

\* C4: a Go move whose resulting grid equals the grid one snapshot back is
\* rejected.
C4_KoRejected ==
    [][(/\ variant = "Go" /\ op' = "make_move"
        /\ OnEmptyCell(grid, arg') /\ history # << >>
        /\ GoAfter(grid, current_player, arg') = Last(history))
        => result' = "InvalidMoveError"]_vars

\* C5: a Go move on an empty cell of the board is rejected exactly when it
\* captures nothing and leaves its own group without a liberty.
C5_SuicideRejected ==
    [][(variant = "Go" /\ op' = "make_move" /\ OnEmptyCell(grid, arg'))
        => (result' = "InvalidMoveError" <=> GoSuicide(grid, current_player, arg'))]_vars

\* The corner (0,0) has been refused to a player whose opponent holds (0,1)
\* and (1,0).
C5_Witness ==
    /\ variant = "Go" /\ op = "make_move" /\ result = "InvalidMoveError"
    /\ arg = <<0, 0>> /\ grid[0][0] = 0
    /\ grid[0][1] = 3 - current_player /\ grid[1][0] = 3 - current_player

\* A stone without a liberty of its own has been accepted because it
\* captured.
C5_WitnessCapture ==
    /\ variant = "Go" /\ op = "make_move" /\ result = "ok"
    /\ \A n \in Adj(arg) : Last(history)[n[1]][n[2]] = current_player

\* C6: an accepted Go move puts the mover's stone at (r,c), removes in full
\* every opponent group next to it that is left without a liberty, and
\* changes no other cell.
C6_GoCapture ==
    [][(variant = "Go" /\ op' = "make_move" /\ result' = "ok")
        => grid' = GoAfter(grid, current_player, arg')]_vars

\* A Go move has just captured a group of two stones or more.
C6_Witness ==
    /\ variant = "Go" /\ op = "make_move" /\ result = "ok"
    /\ CountCells(Last(history), current_player) >= CountCells(grid, current_player) + 2

\* C7: an Othello move succeeds exactly when it is on an empty cell of the
\* board and brackets a run of opponent stones in one of the 8 directions.
C7_OthelloLegality ==
    [][(variant = "Othello" /\ op' = "make_move")
        => (result' = "ok" <=> OthelloLegal(grid, current_player, arg'))]_vars

\* An Othello move next to an opponent stone has been rejected: the run it
\* starts is not closed by a stone of the mover.
C7_Witness ==
    /\ variant = "Othello" /\ op = "make_move" /\ result = "InvalidMoveError"
    /\ OnEmptyCell(grid, arg)
    /\ \E d \in AllDirections : Holds(grid, Step(arg, d, 1), 3 - current_player)

\* C8: an accepted Othello move colours (r,c) and every bracketed opponent
\* stone, changes nothing else, toggles the player and adds one stone; the
\* opening move (2,3) leaves 4 stones of A and 1 of B.
C8_OthelloFlip ==
    [][(variant = "Othello" /\ op' = "make_move" /\ result' = "ok")
        => /\ grid' = OthelloAfter(grid, current_player, arg')
           /\ current_player' = 3 - current_player
           /\ Stones(grid') = Stones(grid) + 1
           /\ (history = << >> /\ arg' = <<2, 3>>) => count_stones(grid') = <<4, 1>>]_vars

\* The opening move (2,3) has been played on the fresh board.
C8_Witness ==
    /\ variant = "Othello" /\ op = "make_move" /\ result = "ok"
    /\ arg = <<2, 3>> /\ Len(history) = 1 /\ Last(history) = OthelloInit(Size)

\* An Othello move has flipped stones in more than one direction.
C8_WitnessTwoDirections ==
    /\ variant = "Othello" /\ op = "make_move" /\ result = "ok"
    /\ Cardinality({d \in AllDirections :
           /\ Holds(Last(history), Step(arg, d, 1), current_player)
           /\ Holds(grid, Step(arg, d, 1), 3 - current_player)}) >= 2

LineDirections == {<<0, 1>>, <<1, 0>>, <<1, 1>>, <<1, -1>>}

\* Colour v has five stones in a row in direction d, starting at s.
FiveFrom(g, v, s, d) == \A k \in 0 .. 4 : Holds(g, Step(s, d, k), v)

HasFive(g, v) == \E s \in Rows \X Rows : \E d \in LineDirections : FiveFrom(g, v, s, d)

Full(g) == \A rc \in Rows \X Rows : At(g, rc) # 0

\* C9: in a Gomoku game that stops at the first win, check_winner returns a
\* colour exactly when that colour has five or more in a row, draw (3)
\* exactly when nobody has and the board is full, and in progress (0)
\* exactly when nobody has and a cell is empty.
C9_GomokuWinner ==
    variant = "Gomoku"
      => /\ \A v \in {1, 2} : winner = v <=> HasFive(grid, v)
         /\ winner = 3 <=> (~HasFive(grid, 1) /\ ~HasFive(grid, 2) /\ Full(grid))
         /\ winner = 0 <=> (~HasFive(grid, 1) /\ ~HasFive(grid, 2) /\ ~Full(grid))

\* A Gomoku board has been filled without five in a row: a draw.
C9_Witness == variant = "Gomoku" /\ winner = 3 /\ Full(grid) /\ Len(history) = Size * Size

\* Either colour has won a Gomoku game along every one of the directions.
C9_WitnessLine(v, d) ==
    /\ variant = "Gomoku" /\ winner = v
    /\ \E s \in Rows \X Rows : FiveFrom(grid, v, s, d)

C9_WitnessA1 == C9_WitnessLine(1, <<0, 1>>)
C9_WitnessA2 == C9_WitnessLine(1, <<1, 0>>)
C9_WitnessA3 == C9_WitnessLine(1, <<1, 1>>)
C9_WitnessA4 == C9_WitnessLine(1, <<1, -1>>)
C9_WitnessB1 == C9_WitnessLine(2, <<0, 1>>)
C9_WitnessB2 == C9_WitnessLine(2, <<1, 0>>)
C9_WitnessB3 == C9_WitnessLine(2, <<1, 1>>)
C9_WitnessB4 == C9_WitnessLine(2, <<1, -1>>)

\* Player p has a legal Othello move on g.
AnyLegal(g, p) == \E rc \in Rows \X Rows : OthelloLegal(g, p, rc)

\* The colour with more stones, 3 when the counts are equal.
Majority(g) ==
    IF CountCells(g, 1) > CountCells(g, 2) THEN 1
    ELSE IF CountCells(g, 2) > CountCells(g, 1) THEN 2 ELSE 3

\* C10: Othello's check_winner returns in progress (0) exactly when one of
\* the two players has a legal move; otherwise it returns the colour with
\* more stones, or draw (3) when the counts are equal.
C10_OthelloWinner ==
    variant = "Othello"
      => /\ winner = 0 <=> (AnyLegal(grid, 1) \/ AnyLegal(grid, 2))
         /\ winner # 0 => winner = Majority(grid)

\* An Othello game has ended in a draw.
C10_Witness ==
    /\ variant = "Othello" /\ winner = 3
    /\ CountCells(grid, 1) = CountCells(grid, 2)

C10_WitnessWinA == variant = "Othello" /\ winner = 1 /\ Full(grid)

C10_WitnessWinB == variant = "Othello" /\ winner = 2 /\ Full(grid)

\* The game has ended on a board with empty cells: nobody can move.
C10_WitnessWipeout == variant = "Othello" /\ winner = 1 /\ ~Full(grid)

\* The game goes on although the player to move has no legal move.
C10_WitnessPass ==
    /\ variant = "Othello" /\ winner = 0
    /\ ~AnyLegal(grid, current_player)

\* C11: in Go, check_winner returns 1 when player A has strictly more
\* stones on the board than player B, 2 when B has strictly more, and
\* draw (3), never in progress (0), when the counts are equal.
C11_GoWinner ==
    (variant = "Go" /\ op = "check_winner") => result = Majority(grid)

\* C13: every coordinate get_valid_moves returns is a legal move of the
\* player to move: make_move on it in the same state succeeds.
C13_ValidMovesAccepted ==
    op = "get_valid_moves"
      => \A rc \in result :
            make_move(variant, grid, current_player, history, rc[1], rc[2]).result = "ok"

\* C14: check_rules, get_valid_moves and check_winner return with grid,
\* current_player and history as they were at the call, in every variant;
\* Othello's check_winner, which probes the opponent's moves, too.
C14_QueriesChangeNothing ==
    [][op' \in {"check_rules", "get_valid_moves", "check_winner"}
        => /\ grid' = grid
           /\ current_player' = current_player
           /\ history' = history]_vars

\* Othello's check_winner has answered for player B after stones were
\* flipped: both players were asked for their moves.
C14_Witness ==
    /\ variant = "Othello" /\ op = "check_winner" /\ result = 0
    /\ current_player = 2 /\ Stones(grid) > 4

\* Othello's check_rules has raised on an empty cell.
C14_WitnessRaise ==
    /\ variant = "Othello" /\ op = "check_rules"
    /\ result = "InvalidMoveError" /\ OnEmptyCell(grid, arg)

\* C15: undo on an empty history raises GameStateError and changes
\* nothing; on a history that is not empty it removes the most recent
\* snapshot and nothing else, makes the grid that snapshot and toggles
\* current_player.
C15_Undo ==
    [][op' = "undo"
        => IF Len(history) = 0
           THEN /\ result' = "GameStateError"
                /\ grid' = grid
                /\ current_player' = current_player
                /\ history' = history
           ELSE /\ result' = "ok"
                /\ Len(history') = Len(history) - 1
                /\ \A i \in 1 .. Len(history') : history'[i] = history[i]
                /\ grid' = history[Len(history)]
                /\ current_player' = 3 - current_player]_vars

\* An undo has taken a Go game back to a position with stones, snapshots
\* left on the history.
C15_Witness ==
    /\ variant = "Go" /\ op = "undo" /\ result = "ok"
    /\ Len(history) >= 2 /\ Stones(grid) >= 2

\* An undo has been refused on the empty history.
C15_WitnessEmpty ==
    op = "undo" /\ result = "GameStateError" /\ history = << >>

\* C16: pass_turn appends a snapshot equal to the current grid, toggles
\* current_player and changes no cell; an undo right after a pass gives
\* the turn back to the player who passed, the grid still unchanged.
C16_PassTurn ==
    [][/\ op' = "pass_turn"
          => /\ Len(history') = Len(history) + 1
             /\ \A i \in 1 .. Len(history) : history'[i] = history[i]
             /\ history'[Len(history')] = grid
             /\ grid' = grid
             /\ current_player' = 3 - current_player
       /\ (op = "pass_turn" /\ op' = "undo")
          => /\ result' = "ok"
             /\ grid' = grid
             /\ current_player' = 3 - current_player]_vars

\* An Othello player has passed on a position reached by two moves.
C16_Witness ==
    /\ variant = "Othello" /\ op = "pass_turn"
    /\ Len(history) >= 3 /\ Stones(grid) = 6
    /\ history[Len(history)] = grid

\* A Go player has passed.
C16_WitnessGo ==
    /\ variant = "Go" /\ op = "pass_turn" /\ Stones(grid) >= 1
    /\ history[Len(history)] = grid

\* C19: in every Othello position, OthelloGame.get_valid_moves returns
\* the coordinates the default GameBase.get_valid_moves would: the empty
\* cells check_rules accepts for the player to move.
C19_OverrideMatchesDefault ==
    variant = "Othello"
      => Othello_get_valid_moves(grid, current_player)
           = Base_get_valid_moves(variant, grid, current_player)

\* A position where some empty cells are legal and others are not.
C19_Witness ==
    /\ variant = "Othello" /\ Stones(grid) > 20
    /\ Othello_get_valid_moves(grid, current_player) # {}
    /\ Othello_get_valid_moves(grid, current_player) # EmptyCells(grid)

\* A position with empty cells and no legal move.
C19_WitnessNone ==
    /\ variant = "Othello" /\ EmptyCells(grid) # {}
    /\ Othello_get_valid_moves(grid, current_player) = {}

C12_WitnessGo ==
    /\ variant = "Go" /\ winner \in {1, 2} /\ ~in_game_loop /\ op = "pass_turn"

\* An Othello game has ended.
C12_WitnessOthello ==
    /\ variant = "Othello" /\ winner \in {1, 2, 3} /\ ~in_game_loop

\* C17: in the Othello turn loop a turn passes exactly when the player to
\* move has no legal move while the opponent has one: then the next step
\* gives the turn to the opponent with the grid unchanged, for a human
\* and for an AI; no other step passes (the command pass is refused), and
\* no pass follows a pass.
C17_OthelloPass ==
    [][(variant = "Othello" /\ variant' = "Othello")
        => /\ op' = "pass_turn"
              => /\ ~AnyLegal(grid, current_player)
                 /\ AnyLegal(grid, 3 - current_player)
           /\ (/\ in_game_loop
               /\ ~AnyLegal(grid, current_player)
               /\ AnyLegal(grid, 3 - current_player))
              => /\ op' = "pass_turn"
                 /\ grid' = grid
                 /\ current_player' = 3 - current_player
           /\ op' = "pass" => (result' = "InvalidCommandError" /\ grid' = grid
                                /\ current_player' = current_player)
           /\ op = "pass_turn" => op' # "pass_turn"]_vars

\* The loop has passed for an AI player without a legal move.
C17_Witness ==
    /\ variant = "Othello" /\ op = "pass_turn" /\ in_game_loop
    /\ player_settings[3 - current_player] > 0
    /\ history[Len(history)] = grid

\* The loop has passed for a human player without a legal move.
C17_WitnessHuman ==
    /\ variant = "Othello" /\ op = "pass_turn" /\ in_game_loop
    /\ player_settings[3 - current_player] = 0

\* The command pass has been refused in an Othello game.
C17_WitnessRefused ==
    variant = "Othello" /\ op = "pass" /\ result = "InvalidCommandError"

C18_WitnessUndo ==
    /\ variant = "Go" /\ op = "undo" /\ result = "ok" /\ pass_count = 0
    /\ Len(history) >= 1 /\ history[Len(history)] = grid

\* C20: a new game has current_player 1 and an empty history; a Gomoku or
\* Go board is empty; an Othello board of any size from 8 to 19 holds
\* four stones, on the four centre cells, two of player 1 on one
\* diagonal and two of player 2 on the other, and nothing else.
C20_FreshGame ==
    (op = "new" /\ result = "ok")
      => LET n == Cardinality(DOMAIN grid)
             cells == (0 .. (n - 1)) \X (0 .. (n - 1))
             a == {s \in cells : grid[s[1]][s[2]] = 1}
             b == {s \in cells : grid[s[1]][s[2]] = 2}
         IN /\ current_player = 1
            /\ history = << >>
            /\ n \in 8 .. 19
            /\ DOMAIN grid = 0 .. (n - 1)
            /\ \A r \in DOMAIN grid : DOMAIN grid[r] = 0 .. (n - 1)
            /\ \A s \in cells : grid[s[1]][s[2]] \in {0, 1, 2}
            /\ IF variant = "Othello"
               THEN \E k \in 0 .. (n - 2) :
                       /\ 2 * k + 2 - n \in {-1, 0, 1}
                       /\ \/ /\ a = {<<k, k>>, <<k + 1, k + 1>>}
                             /\ b = {<<k, k + 1>>, <<k + 1, k>>}
                          \/ /\ b = {<<k, k>>, <<k + 1, k + 1>>}
                             /\ a = {<<k, k + 1>>, <<k + 1, k>>}
               ELSE a = {} /\ b = {}

\* An Othello game on the largest board has been built.
C20_Witness ==
    /\ variant = "Othello" /\ op = "new" /\ result = "ok"
    /\ arg = <<MaxSize>> /\ Cardinality(DOMAIN grid) = MaxSize

\* An Othello game on a board of odd size has been built.
C20_WitnessOdd ==
    /\ variant = "Othello" /\ op = "new" /\ result = "ok" /\ arg = <<9>>

\* C21: the command restart, in any state of any variant, leaves a new
\* game of the same variant and board size: the initial grid,
\* current_player 1, an empty history and pass counter 0; nothing of the
\* old grid or history is left.
C21_Restart ==
    [][op' = "restart"
        => /\ variant' = variant
           /\ Cardinality(DOMAIN grid') = Cardinality(DOMAIN grid)
           /\ \A r \in DOMAIN grid' : DOMAIN grid'[r] = DOMAIN grid'
           /\ \A s \in Rows \X Rows :
                 grid'[s[1]][s[2]] =
                    IF variant = "Othello" /\ s \in {<<3, 4>>, <<4, 3>>} THEN 1
                    ELSE IF variant = "Othello" /\ s \in {<<3, 3>>, <<4, 4>>} THEN 2
                    ELSE 0
           /\ current_player' = 1
           /\ history' = << >>
           /\ pass_count' = 0]_vars

\* A game has been restarted.
C21_Witness ==
    /\ op = "restart" /\ result = "ok" /\ variant = "Othello"
    /\ Stones(grid) = 4 /\ in_game_loop

\* A Go game has been restarted.
C21_WitnessGo == op = "restart" /\ result = "ok" /\ variant = "Go" /\ in_game_loop

\* The file holds a game of one of the three variants on a square grid of
\* a size the game accepts, every cell empty or of a colour.
WellFormedFile(file) ==
    /\ file.readable
    /\ file.variant \in Variants
    /\ \E n \in Size .. MaxSize :
          /\ DOMAIN file.grid = 0 .. (n - 1)
          /\ \A r \in 0 .. (n - 1) :
                /\ DOMAIN file.grid[r] = 0 .. (n - 1)
                /\ \A c \in 0 .. (n - 1) : file.grid[r][c] \in {0, 1, 2}

\* C22: a load of a snapshot that fails a structural check (a grid that
\* is not size x size, a cell that is neither empty nor a colour, a
\* variant that is none of the three) is refused with an error and leaves
\* the game in place as it was.
C22_CorruptLoadRejected ==
    [][(op' = "load" /\ ~WellFormedFile(arg'[1]))
        => /\ result' # "ok"
           /\ variant' = variant
           /\ grid' = grid
           /\ current_player' = current_player
           /\ history' = history]_vars

\* C23: in a Go game of the turn loop, once two passes were made in a
\* row the check for the end of the game gives a result, whatever the
\* board, boards with as many stones of one colour as of the other
\* included.
C23_TwoPassesEndGo ==
    (variant = "Go" /\ passes >= 2) => (winner \in {1, 2, 3} /\ ~in_game_loop)

\* C24: in a Go game started on the empty board, after any moves
\* (accepted or rejected), passes and undos, every group of stones of one
\* colour joined by orthogonal steps has an empty cell next to it.
C24_GroupsHaveLiberties ==
    variant = "Go"
      => \A s \in Rows \X Rows :
            At(grid, s) # 0 => Liberties(grid, GroupOf(grid, s)) # {}

\* A capture has just taken stones off the board.
C24_Witness ==
    /\ variant = "Go" /\ op = "make_move" /\ result = "ok"
    /\ Stones(grid) <= Stones(history[Len(history)])

\* A suicide has just been rejected.
C24_WitnessSuicide ==
    /\ variant = "Go" /\ op = "make_move" /\ result = "InvalidMoveError"
    /\ OnEmptyCell(grid, arg)

\* A group of two stones has a single liberty left.
C24_WitnessAtari ==
    /\ variant = "Go"
    /\ \E s \in Rows \X Rows :
          /\ At(grid, s) # 0
          /\ Cardinality(GroupOf(grid, s)) >= 2
          /\ Cardinality(Liberties(grid, GroupOf(grid, s))) = 1

\* C25: in a game started fresh, after any accepted or rejected moves,
\* passes and undos, current_player is 1 exactly when len(history) is
\* even and 2 exactly when it is odd.
C25_TurnParity ==
    /\ current_player = 1 <=> Len(history) % 2 = 0
    /\ current_player = 2 <=> Len(history) % 2 = 1

\* A Go suicide of player 2 has been rejected on a history of three.
C25_Witness ==
    /\ variant = "Go" /\ op = "make_move" /\ result = "InvalidMoveError"
    /\ OnEmptyCell(grid, arg) /\ current_player = 2 /\ Len(history) = 3

\* An undo has given the turn back after a pass.
C25_WitnessUndo ==
    /\ op = "undo" /\ result = "ok" /\ undos = 1 /\ Len(history) >= 2

\* C26: the i-th entry of history is the grid as it stood right before
\* the i-th move or pass that is not undone; stones placed later,
\* captures, flips and undos change no entry.  An accepted move or pass
\* appends the grid it found, a rejected move leaves the history as it
\* was, and an undo removes the last entry only.
C26_SnapshotsAreKept ==
    [][/\ (op' \in {"make_move", "pass_turn"} /\ result' = "ok")
          => /\ Len(history') = Len(history) + 1
             /\ history'[Len(history')] = grid
       /\ (op' = "make_move" /\ result' # "ok") => Len(history') = Len(history)
       /\ (op' = "undo" /\ result' = "ok") => Len(history') = Len(history) - 1
       /\ \A i \in 1 .. Len(history) :
             i <= Len(history') => history'[i] = history[i]]_vars

\* An Othello move has flipped stones after two entries were recorded,
\* all three entries different from the grid.
C26_Witness ==
    /\ variant = "Othello" /\ op = "make_move" /\ result = "ok"
    /\ Len(history) = 3
    /\ \A i \in 1 .. 3 : history[i] # grid
    /\ history[1] = OthelloInit(Size)

\* A Go capture has been recorded: the last entry holds the stones taken.
C26_WitnessCapture ==
    /\ variant = "Go" /\ op = "make_move" /\ result = "ok"
    /\ Stones(history[Len(history)]) >= Stones(grid)

\* C27: an Othello game of the turn loop in which every turn ends with an
\* accepted move or a forced pass reaches the end of the game: as long as
\* the game is in progress there is an empty cell, so that at most
\* size * size - 4 stones are placed, and the loop can complete the turn
\* by a move or by the pass; in the end check_winner gives a result and
\* the loop stops.
C27_OthelloEnds ==
    /\ [](variant = "Othello" /\ winner = 0
            => /\ EmptyCells(grid) # {}
               /\ Stones(grid) - 4 < Size * Size - 4
               /\ TurnPossible)
    /\ (variant = "Othello") ~> (variant = "Othello" /\ winner \in {1, 2, 3})

\* An Othello game has ended on the full board after forced passes: the
\* history holds more entries than stones were placed.
C27_Witness ==
    /\ variant = "Othello" /\ winner \in {1, 2, 3} /\ Full(grid)
    /\ Len(history) > Size * Size - 4

\* C28: in a game of a human player 1 against an AI player 2, an undo
\* command that reports success removes exactly two entries of the
\* history and leaves the turn with the human and the pass counter at 0;
\* no undo command leaves the game one step back with the AI to move.
C28_UndoAgainstAi ==
    [][(op' = "undo" /\ player_settings[1] = 0 /\ player_settings[2] > 0)
        => /\ result' = "ok"
              => /\ Len(history') = Len(history) - 2
                 /\ \A i \in 1 .. Len(history') : history'[i] = history[i]
                 /\ current_player' = 1
                 /\ pass_count' = 0
           /\ ~(Len(history') = Len(history) - 1 /\ current_player' = 2)
           /\ result' # "ok" => (history' = history /\ grid' = grid)]_vars

\* An undo against the AI has taken back the AI's move and the human's.
C28_Witness ==
    /\ player_settings[1] = 0 /\ player_settings[2] > 0
    /\ op = "undo" /\ result = "ok" /\ undos = 2
    /\ current_player = 1 /\ Len(history) >= 2 /\ in_game_loop

====
